---- MODULE Spec2Model ----
(***************************************************************************)
(* BernoulliGLMRaw (bayesflow/simulators/benchmark_simulators/             *)
(* bernoulli_glm_raw.py): the Bernoulli GLM benchmark simulator.           *)
(*                                                                         *)
(* Real numbers are modelled in fixed point over the integers, and a       *)
(* numpy Generator as a small linear congruential generator: one step of   *)
(* the generator per variate, every variate a function of the generator's  *)
(* state.  Arrays are sequences, so index i of the source is index i + 1   *)
(* here.                                                                   *)
(***************************************************************************)
EXTENDS Integers, Sequences, FiniteSets, TLC

\* ---------------------------------------------------------------- bounds
\* Largest T an instance is constructed with (T ranges over -1 .. MaxT).
MaxT == 2
\* Calls made on one instance.
MaxCalls == 3
\* Fixed-point scale of the entries of F.
FScale == 3

\* The 9 weights of the GLM (np.zeros((9, 9)), np.arange(9), size=(9, T)).
NumWeights == 9

Instances == {"w1", "w2"}
Solo == {"w1"}
\* numpy's module-level generator, which the simulator never uses.
GlobalGen == "np.random"
GenIds == Instances \cup {GlobalGen}
\* States a freshly seeded generator starts in.
Seeds == {1, 6}
None == "None"

VARIABLES
  pc,     \* pc[w]: "new" before __init__, "ready" after, "failed" if it raised
  T,      \* self.T
  rng,    \* self.rng: the generator the instance refers to
  cov,    \* self.cov
  gen,    \* gen[g]: the internal state of generator g
  seed,   \* seed[w]: the state of self.rng when __init__ returned
  ctor,   \* ctor[w]: self.T and self.cov when __init__ returned
  hist    \* hist[w]: the calls made on w, with arguments, locals and results

vars == <<pc, T, rng, cov, gen, seed, ctor, hist>>

\* ------------------------------------------------------- array helpers
RECURSIVE SumFrom(_, _)
SumFrom(s, i) == IF i > Len(s) THEN 0 ELSE s[i] + SumFrom(s, i + 1)

SumSeq(s) == SumFrom(s, 1)

Dot(a, b) == SumSeq([i \in 1..Len(a) |-> a[i] * b[i]])

Zeros(n) == [i \in 1..n |-> 0]

\* M.T for a matrix given as a sequence of rows.
Transpose(M) ==
  IF Len(M) = 0 THEN <<>>
  ELSE [t \in 1..Len(M[1]) |-> [k \in 1..Len(M) |-> M[k][t]]]

\* A @ B
MatMul(A, B) ==
  [i \in 1..Len(A) |-> [j \in 1..Len(B[1]) |->
      SumSeq([k \in 1..Len(B) |-> A[i][k] * B[k][j]])]]

Isqrt(n) == CHOOSE r \in 0..n : r * r <= n /\ n < (r + 1) * (r + 1)

Minor(M, j) ==
  [r \in 1..(Len(M) - 1) |-> [c \in 1..(Len(M) - 1) |->
      M[r + 1][IF c < j THEN c ELSE c + 1]]]

\* Determinant, expanded along the first row.
RECURSIVE Det(_)
Det(M) ==
  IF Len(M) = 0 THEN 1
  ELSE SumSeq([j \in 1..Len(M) |->
         IF M[1][j] = 0 THEN 0
         ELSE (IF j % 2 = 1 THEN 1 ELSE -1) * M[1][j] * Det(Minor(M, j))])

Ok(v) == [err |-> "none", val |-> v]
Err(e) == [err |-> e, val |-> <<>>]

\* ------------------------------------------------------- the generator
\* One step of the bit generator.
NextState(s) == (5 * s + 3) % 64

\* n steps at once: NextState^n(s) = (a * s + c) % 64 for the pair <<a, c>>
\* of Jump(n), found by halving n.
RECURSIVE Jump(_)
Jump(n) ==
  IF n <= 0 THEN <<1, 0>>
  ELSE LET h == Jump(n \div 2)
           a == (h[1] * h[1]) % 64
           c == (h[1] * h[2] + h[2]) % 64
       IN IF n % 2 = 0 THEN <<a, c>> ELSE <<(5 * a) % 64, (5 * c + 3) % 64>>

Steps(s, n) == LET j == Jump(n) IN (j[1] * s + j[2]) % 64

\* The states the generator is in as it yields its next n variates.
Stream(s, n) == [i \in 1..n |-> Steps(s, i - 1)]

\* The state after the variates of Stream(s, n).
After(s, st) == IF Len(st) = 0 THEN s ELSE NextState(st[Len(st)])

\* The standard-normal variate and the uniform variate (in eighths) a
\* generator in state s yields.
StdNormal(s) == (s % 3) - 1
Uniform(s) == s \div 8

\* rng.normal(loc, scale): one variate.
normal(s, loc, scale) == [val |-> loc + scale * StdNormal(s), s |-> NextState(s)]

\* rng.normal(size=(rows, cols)): filled in C order; a negative dimension
\* raises before anything is drawn.
normal_size(s, rows, cols) ==
  IF cols < 0 THEN [err |-> "ValueError", val |-> <<>>, s |-> s]
  ELSE LET st == Stream(s, rows * cols)
       IN [err |-> "none",
           val |-> [k \in 1..rows |-> [t \in 1..cols |->
                      StdNormal(st[(k - 1) * cols + t])]],
           s   |-> After(s, st)]

\* rng.multivariate_normal(mean, cov): NumWeights standard-normal variates
\* x, mapped linearly by the matrix that stands for cov.
multivariate_normal(s, mean, c) ==
  LET st == Stream(s, Len(mean))
      x == [j \in 1..Len(mean) |-> StdNormal(st[j])]
  IN [val |-> [k \in 1..Len(mean) |->
                 mean[k] + Dot(x, [j \in 1..Len(mean) |-> c.precision[j][k]])],
      s   |-> After(s, st)]

\* rng.binomial(n=1, p=p) for a vector p: one uniform variate per entry.
binomial(s, p) ==
  LET st == Stream(s, Len(p))
  IN [val |-> [t \in 1..Len(p) |-> IF Uniform(st[t]) < p[t] THEN 1 ELSE 0],
      s   |-> After(s, st)]

\* scipy.special.expit, in eighths: 1/2 at 0, increasing, saturating at 0
\* and 1 as it does in floating point.
expit(x) ==
  LET y == 4 + (x \div 32)
  IN IF y < 0 THEN 0 ELSE IF y > 8 THEN 8 ELSE y

\* ------------------------------------------------------------ __init__
\* F of lines 26-30, scaled by FScale (the square root rounded down).
BuildF_NoOne ==
  [i \in 1..NumWeights |-> [j \in 1..NumWeights |->
      IF j = i THEN Isqrt(((i - 1) * FScale * FScale) \div NumWeights)
      ELSE IF j = i - 1 THEN -2 * FScale
      ELSE IF j = i - 2 THEN FScale
      ELSE 0]]

BuildF ==
  [i \in 1..NumWeights |-> [j \in 1..NumWeights |->
      IF j = i THEN FScale + Isqrt(((i - 1) * FScale * FScale) \div NumWeights)
      ELSE IF j = i - 1 THEN -2 * FScale
      ELSE IF j = i - 2 THEN FScale
      ELSE 0]]

\* np.linalg.inv(F.T @ F): raises when F.T @ F is singular, which it is
\* exactly when F is (det(F.T @ F) = det(F)^2).  The inverse is carried as
\* the matrix it inverts.
inv_gram(F) ==
  IF Det(F) = 0 THEN [err |-> "LinAlgError", val |-> <<>>]
  ELSE [err |-> "none", val |-> [precision |-> MatMul(Transpose(F), F)]]

\* self.cov as line 31 computes it.
Cov0 == inv_gram(BuildF)

\* __init__ binding self.rng to the module-level generator.
init_global(t, r, own) ==
  LET c == Cov0
  IN [err |-> c.err, self |-> [T |-> t, rng |-> GlobalGen, cov |-> c.val]]

\* __init__(T, rng): own is the generator default_rng() creates.
init(t, r, own) ==
  LET c == Cov0
  IN [err  |-> c.err,
      self |-> [T |-> t, rng |-> IF r = None THEN own ELSE r, cov |-> c.val]]

\* --------------------------------------------------------------- prior
\* A method using np.random instead of self.rng.
rng_global(self) == GlobalGen

\* The generator a method draws from: self.rng.
rng_of(self) == self.rng

np_append_swapped(beta, f) == f \o <<beta>>

\* np.append(beta, f)
np_append(beta, f) == <<beta>> \o f

\* The two draws of prior, f before beta.
prior_draws_swapped(self, s) ==
  LET d1 == multivariate_normal(s, Zeros(NumWeights), self.cov)
      d2 == normal(d1.s, 0, 2)
  IN [beta |-> d2.val, f |-> d1.val, s |-> d2.s]

\* The two draws of prior: beta, then f.
prior_draws(self, s) ==
  LET d1 == normal(s, 0, 2)
      d2 == multivariate_normal(d1.s, Zeros(NumWeights), self.cov)
  IN [beta |-> d1.val, f |-> d2.val, s |-> d2.s]

\* prior storing F.T @ F doubled in self.cov on each call.
prior_recompute(self, gens) ==
  LET r == rng_of(self)
      d == prior_draws(self, gens[r])
  IN [self   |-> [self EXCEPT !.cov = [precision |-> MatMul(self.cov.precision, self.cov.precision)]],
      gens   |-> [gens EXCEPT ![r] = d.s],
      ret    |-> Ok(np_append(d.beta, d.f)),
      locals |-> [beta |-> d.beta, f |-> d.f, V |-> <<>>, z |-> <<>>]]

\* prior(self)
prior(self, gens) ==
  LET r == rng_of(self)
      d == prior_draws(self, gens[r])
  IN [self   |-> self,
      gens   |-> [gens EXCEPT ![r] = d.s],
      ret    |-> Ok(np_append(d.beta, d.f)),
      locals |-> [beta |-> d.beta, f |-> d.f, V |-> <<>>, z |-> <<>>]]

\* --------------------------------------------------- observation_model
\* np.c_[V.T, z]: the outcomes last.
stack_z_last(z, V) ==
  LET Vt == Transpose(V) IN [t \in 1..Len(z) |-> Vt[t] \o <<z[t]>>]

\* np.c_[z, V.reshape(T, 9)]: a reshape in place of the transpose.
stack_reshape(z, V) ==
  LET n == Len(z)
      flat == [i \in 1..(Len(V) * n) |-> V[((i - 1) \div n) + 1][((i - 1) % n) + 1]]
  IN [t \in 1..n |-> <<z[t]>> \o [k \in 1..Len(V) |-> flat[(t - 1) * Len(V) + k]]]

\* np.c_[np.expand_dims(z, axis=-1), V.T]
stack(z, V) ==
  LET Vt == Transpose(V) IN [t \in 1..Len(z) |-> <<z[t]>> \o Vt[t]]

NoLocals == [beta |-> 0, f |-> <<>>, V |-> <<>>, z |-> <<>>]

\* observation_model(self, params)
observation_model(self, gens, params) ==
  IF Len(params) = 0
  THEN \* params[0] raises IndexError
       [self |-> self, gens |-> gens, ret |-> Err("IndexError"), locals |-> NoLocals]
  ELSE
    LET beta == params[1]
        f == [k \in 1..(Len(params) - 1) |-> params[k + 1]]
        r == rng_of(self)
        d == normal_size(gens[r], NumWeights, self.T)
    IN IF d.err # "none"
       THEN [self |-> self, gens |-> gens, ret |-> Err(d.err),
             locals |-> [NoLocals EXCEPT !.beta = beta, !.f = f]]
       ELSE IF Len(f) # NumWeights
       THEN \* V.T @ f raises ValueError, after V was drawn
            [self |-> self, gens |-> [gens EXCEPT ![r] = d.s], ret |-> Err("ValueError"),
             locals |-> [beta |-> beta, f |-> f, V |-> d.val, z |-> <<>>]]
       ELSE
         LET Vt == Transpose(d.val)
             p == [t \in 1..Len(Vt) |-> expit(Dot(Vt[t], f) + beta)]
             b == binomial(d.s, p)
         IN [self |-> self, gens |-> [gens EXCEPT ![r] = b.s],
             ret |-> Ok(stack(b.val, d.val)),
             locals |-> [beta |-> beta, f |-> f, V |-> d.val, z |-> b.val]]

\* ------------------------------------------------------------- actions
Self(w) == [T |-> T[w], rng |-> rng[w], cov |-> cov[w]]

TValues == (-1)..MaxT

\* Parameter vectors a caller supplies: none, too few, exactly 10 entries.
Thetas == {<<>>, [i \in 1..5 |-> 1], Zeros(NumWeights + 1), [i \in 1..(NumWeights + 1) |-> 1]}

Init ==
  /\ pc = [w \in Instances |-> "new"]
  /\ T = [w \in Instances |-> 0]
  /\ rng = [w \in Instances |-> None]
  /\ cov = [w \in Instances |-> <<>>]
  /\ gen = [g \in GenIds |-> 0]
  /\ seed = [w \in Instances |-> 0]
  /\ ctor = [w \in Instances |-> <<>>]
  /\ hist = [w \in Instances |-> <<>>]

\* BernoulliGLMRaw(T=t, rng=r): r is None or the generator the caller made
\* for w; either way the generator starts in a state s0 of Seeds.
Construct(w, t, r, s0) ==
  /\ pc[w] = "new"
  /\ \E res \in {init(t, r, w)} :
        /\ pc' = [pc EXCEPT ![w] = IF res.err = "none" THEN "ready" ELSE "failed"]
        /\ T' = [T EXCEPT ![w] = res.self.T]
        /\ rng' = [rng EXCEPT ![w] = res.self.rng]
        /\ cov' = [cov EXCEPT ![w] = res.self.cov]
        /\ gen' = [gen EXCEPT ![w] = s0]
        /\ seed' = [seed EXCEPT ![w] = gen'[res.self.rng]]
        /\ ctor' = [ctor EXCEPT ![w] = [T |-> res.self.T, cov |-> res.self.cov]]
  /\ UNCHANGED hist

Apply(w, op, params, res) ==
  /\ T' = [T EXCEPT ![w] = res.self.T]
  /\ rng' = [rng EXCEPT ![w] = res.self.rng]
  /\ cov' = [cov EXCEPT ![w] = res.self.cov]
  /\ gen' = res.gens
  /\ hist' = [hist EXCEPT ![w] = Append(@,
        [op |-> op, params |-> params, pre |-> gen[rng[w]], post |-> res.gens[rng[w]],
         ret |-> res.ret, locals |-> res.locals])]
  /\ UNCHANGED <<pc, seed, ctor>>

Prior(w) ==
  /\ pc[w] = "ready"
  /\ Len(hist[w]) < MaxCalls
  /\ \E res \in {prior(Self(w), gen)} : Apply(w, "prior", <<>>, res)

Observe(w, params) ==
  /\ pc[w] = "ready"
  /\ Len(hist[w]) < MaxCalls
  /\ \E res \in {observation_model(Self(w), gen, params)} :
        Apply(w, "observation_model", params, res)

\* What a recorded call was and whether it returned.
Calls(w) == 1..Len(hist[w])
IsObs(e) == e.op = "observation_model"
IsPrior(e) == e.op = "prior"
Returned(e) == e.ret.err = "none"

\* The parameter vectors w's caller has at hand: its own, and the prior
\* draws made on w.
Params(w) ==
  Thetas \cup {hist[w][i].ret.val : i \in {j \in Calls(w) : IsPrior(hist[w][j])}}

Next ==
  \E w \in Solo :
    \/ \E t \in TValues, r \in {None, w}, s0 \in Seeds : Construct(w, t, r, s0)
    \/ Prior(w)
    \/ \E params \in Params(w) : Observe(w, params)

Spec == Init /\ [][Next]_vars

\* Several instances, each called by its own worker, in any interleaving.
\* Each worker samples the prior and simulates observations, from its latest
\* prior draw or from a vector of its own that is too short.
LatestDraw(w) ==
  {hist[w][i].ret.val : i \in {j \in 1..Len(hist[w]) :
      IsPrior(hist[w][j]) /\ \A k \in (j + 1)..Len(hist[w]) : ~IsPrior(hist[w][k])}}

NextPar ==
  \E w \in Instances :
    \/ \E t \in 1..MaxT, r \in {None, w}, s0 \in Seeds : Construct(w, t, r, s0)
    \/ Len(hist[w]) < MaxCalls - 1 /\ Prior(w)
    \/ \E params \in LatestDraw(w) \cup {[i \in 1..5 |-> 1]} :
         Len(hist[w]) < MaxCalls - 1 /\ Observe(w, params)

SpecPar == Init /\ [][NextPar]_vars

\* ------------------------------------------------------------- claims

\* C1: for T > 0 and a parameter vector of 10 entries, observation_model
\* returns an array of exactly T rows and 10 columns whose column 0 holds
\* only 0 and 1.
C1_ShapeAndBinary ==
  \A w \in Instances : \A i \in Calls(w) :
    LET e == hist[w][i]
    IN (IsObs(e) /\ T[w] > 0 /\ Len(e.params) = NumWeights + 1) =>
         /\ Returned(e)
         /\ Len(e.ret.val) = T[w]
         /\ \A t \in 1..Len(e.ret.val) :
              /\ Len(e.ret.val[t]) = NumWeights + 1
              /\ e.ret.val[t][1] \in {0, 1}

\* An array of at least two rows was returned, with a 0 and a 1 in column 0.
C1_Witness ==
  \E w \in Instances : \E i \in Calls(w) :
    LET e == hist[w][i]
    IN /\ IsObs(e) /\ Returned(e) /\ T[w] >= 2
       /\ \E t, u \in 1..Len(e.ret.val) : e.ret.val[t][1] = 0 /\ e.ret.val[u][1] = 1

\* The full run of the determinism claim: prior, then observation_model on
\* the vector prior returned.
FullRun(w) ==
  /\ pc[w] = "ready"
  /\ Len(hist[w]) >= 2
  /\ IsPrior(hist[w][1])
  /\ IsObs(hist[w][2])
  /\ hist[w][2].params = hist[w][1].ret.val

\* C2: two instances with the same T whose generators started in the same
\* state return the same prior vector and the same observation array from
\* a full run; and any two calls of the same method with the same
\* arguments, the same T and the generator in the same state return the
\* same result and leave the generator in the same state.
C2_Determinism ==
  \A a, b \in Instances :
    /\ (a # b /\ FullRun(a) /\ FullRun(b) /\ T[a] = T[b] /\ seed[a] = seed[b]) =>
          /\ hist[a][1].ret = hist[b][1].ret
          /\ hist[a][2].ret = hist[b][2].ret
    /\ \A i \in Calls(a), j \in Calls(b) :
          LET e == hist[a][i]
              d == hist[b][j]
          IN (e.op = d.op /\ e.params = d.params /\ T[a] = T[b] /\ e.pre = d.pre) =>
               (e.ret = d.ret /\ e.post = d.post)

\* Two instances with the same T and seed both made a full run that
\* returned an array.
C2_Witness ==
  \E a, b \in Instances :
    /\ a # b /\ FullRun(a) /\ FullRun(b) /\ T[a] = T[b] /\ T[a] >= 2 /\ seed[a] = seed[b]
    /\ Returned(hist[a][2]) /\ Returned(hist[b][2])

\* C3 as stated: a call of observation_model with a parameter vector that
\* does not have exactly 10 entries fails and leaves the generator in the
\* state it was in before the call.
C3_FailsBeforeSampling ==
  \A w \in Instances : \A i \in Calls(w) :
    LET e == hist[w][i]
    IN (IsObs(e) /\ Len(e.params) # NumWeights + 1) =>
         (~Returned(e) /\ e.post = e.pre)

\* C4: after any sequence of calls, self.T and self.cov are the values
\* __init__ left, and self.cov is the inverse __init__ computes.
C4_CovAndTFrozen ==
  \A w \in Instances :
    pc[w] = "ready" =>
      /\ T[w] = ctor[w].T
      /\ cov[w] = ctor[w].cov
      /\ cov[w] = Cov0.val

\* An instance on which prior was called, and observation_model both
\* returned and raised.
C4_Witness ==
  \E w \in Instances : \E i, j, k \in Calls(w) :
    /\ IsPrior(hist[w][i])
    /\ IsObs(hist[w][j]) /\ Returned(hist[w][j])
    /\ IsObs(hist[w][k]) /\ ~Returned(hist[w][k])

\* C5 as stated: no instance with T <= 0 is ever constructed, and
\* observation_model never returns an array for T <= 0.
C5_PositiveTOnly ==
  \A w \in Instances :
    /\ pc[w] = "ready" => T[w] > 0
    /\ \A i \in Calls(w) : (IsObs(hist[w][i]) /\ T[w] <= 0) => ~Returned(hist[w][i])

\* The Bernoulli outcome of row t, from the covariates of that row.
Outcome(e, row, t, n) ==
  LET eta == Dot([k \in 1..NumWeights |-> row[k + 1]], e.locals.f) + e.locals.beta
  IN IF Uniform(Steps(e.pre, NumWeights * n + (t - 1))) < expit(eta) THEN 1 ELSE 0

\* C6: in the array observation_model returns, row t is
\* [z_t, V[0,t], ..., V[8,t]] for the design matrix V drawn in the call,
\* and z_t is the outcome drawn with the linear predictor of that row.
C6_RowLayout ==
  \A w \in Instances : \A i \in Calls(w) :
    LET e == hist[w][i]
    IN (IsObs(e) /\ Returned(e)) =>
         \A t \in 1..T[w] :
           /\ e.ret.val[t][1] = e.locals.z[t]
           /\ \A k \in 1..NumWeights : e.ret.val[t][k + 1] = e.locals.V[k][t]
           /\ e.ret.val[t][1] = Outcome(e, e.ret.val[t], t, T[w])

\* An array of at least two rows was returned whose design matrix is not
\* symmetric under the exchange of a row for a column.
C6_Witness ==
  \E w \in Instances : \E i \in Calls(w) :
    LET e == hist[w][i]
    IN /\ IsObs(e) /\ Returned(e) /\ T[w] >= 2
       /\ e.locals.V[1][2] # e.locals.V[2][1]
       /\ e.ret.val[2][2] = e.locals.V[1][2]

\* The results each call on w returned, and the calls themselves.
Rets(w) == [i \in Calls(w) |-> hist[w][i].ret]

RECURSIVE RunAlone(_, _, _, _)
RunAlone(self, gens, h, i) ==
  IF i > Len(h) THEN <<>>
  ELSE LET res == IF IsPrior(h[i]) THEN prior(self, gens)
                  ELSE observation_model(self, gens, h[i].params)
       IN <<res.ret>> \o RunAlone(res.self, res.gens, h, i + 1)

\* The generators as w alone would find them: its own as seeded, the others
\* untouched.
AloneGens(w) == [g \in GenIds |-> IF g = rng[w] THEN seed[w] ELSE 0]

\* The variates a call consumed.
Draws(e) ==
  IF IsPrior(e) THEN 1 + Len(e.locals.f)
  ELSE (IF Len(e.locals.V) = 0 THEN 0 ELSE Len(e.locals.V) * Len(e.locals.V[1]))
       + Len(e.locals.z)

\* The instance of w refers to a generator no other instance refers to.
OwnGenerator(w) ==
  /\ pc[w] = "ready"
  /\ \A v \in Instances : (v # w /\ pc[v] = "ready") => rng[v] # rng[w]

\* C7: with one instance and one generator per worker, in every
\* interleaving each worker's calls return what they return when the worker
\* runs alone, and the generator of an instance has advanced by exactly the
\* variates of the calls made on that instance.
C7_Isolation ==
  \A w \in Instances :
    OwnGenerator(w) =>
      /\ Rets(w) = RunAlone([T |-> ctor[w].T, rng |-> rng[w], cov |-> ctor[w].cov],
                            AloneGens(w), hist[w], 1)
      /\ gen[rng[w]] = Steps(seed[w], SumSeq([i \in Calls(w) |-> Draws(hist[w][i])]))

\* Both workers have made calls that drew from their generators.
C7_Witness ==
  \A w \in Instances :
    /\ OwnGenerator(w)
    /\ Len(hist[w]) >= 2
    /\ \E i \in Calls(w) : IsPrior(hist[w][i])
    /\ \E i \in Calls(w) : IsObs(hist[w][i]) /\ Returned(hist[w][i]) /\ T[w] >= 1

\* C8: prior returns a vector of exactly 10 entries, [beta, f]: entry 0 is
\* the intercept draw and entries 1..9 are, in order, the components of the
\* multivariate-normal draw made with self.cov.
C8_PriorLayout ==
  \A w \in Instances : \A i \in Calls(w) :
    LET e == hist[w][i]
    IN IsPrior(e) =>
         /\ Returned(e)
         /\ e.params = <<>>
         /\ Len(e.ret.val) = NumWeights + 1
         /\ e.ret.val[1] = e.locals.beta
         /\ \A k \in 1..NumWeights : e.ret.val[k + 1] = e.locals.f[k]
         /\ e.locals.f = multivariate_normal(NextState(e.pre), Zeros(NumWeights), cov[w]).val

\* prior returned a vector whose intercept differs from its last weight.
C8_Witness ==
  \E w \in Instances : \E i \in Calls(w) :
    LET e == hist[w][i]
    IN IsPrior(e) /\ Returned(e) /\ e.ret.val[1] # e.ret.val[NumWeights + 1]

UpperTriangular(F) == \A i, j \in 1..Len(F) : i > j => F[i][j] = 0
LowerTriangular(F) == \A i, j \in 1..Len(F) : i < j => F[i][j] = 0
PositiveDiagonal(F) == \A i \in 1..Len(F) : F[i][i] > 0

\* C9 as stated: the F built at construction is upper-triangular with
\* positive diagonal, and construction never fails on a singular matrix.
C9_UpperTriangular ==
  \A w \in Instances :
    pc[w] # "new" =>
      /\ UpperTriangular(BuildF)
      /\ PositiveDiagonal(BuildF)
      /\ pc[w] # "failed"

\* C9, amended: the F built at construction is lower-triangular (every
\* entry F[i,j] with i < j is zero) with positive diagonal, hence
\* invertible, and construction never fails on a singular matrix.
C9_LowerTriangular ==
  \A w \in Instances :
    pc[w] # "new" =>
      /\ Len(BuildF) = NumWeights
      /\ LowerTriangular(BuildF)
      /\ PositiveDiagonal(BuildF)
      /\ Det(BuildF) # 0
      /\ pc[w] = "ready"

\* An instance was constructed, from an F with both sub-diagonals set.
C9_Witness ==
  \E w \in Instances :
    /\ pc[w] = "ready"
    /\ BuildF[2][1] = -2 * FScale
    /\ BuildF[3][1] = FScale
    /\ cov[w] = Cov0.val

\* C10: the generator only advances, in a fixed order.  Each call starts
\* from the state the previous call on the instance left (the seed for the
\* first), so nothing moves the generator between calls; each call leaves
\* it advanced by the variates it drew; prior draws beta from the state it
\* starts in and f from the next; observation_model draws the whole (9, T)
\* design matrix first and the T outcomes after it.
C10_DrawOrder ==
  \A w \in Instances :
    pc[w] = "ready" =>
      /\ gen[rng[w]] = IF Len(hist[w]) = 0 THEN seed[w] ELSE hist[w][Len(hist[w])].post
      /\ \A i \in Calls(w) :
           LET e == hist[w][i]
               n == T[w]
           IN /\ e.pre = IF i = 1 THEN seed[w] ELSE hist[w][i - 1].post
              /\ Draws(e) >= 0
              /\ e.post = Steps(e.pre, Draws(e))
              /\ IsPrior(e) =>
                   /\ Draws(e) = NumWeights + 1
                   /\ e.locals.beta = normal(e.pre, 0, 2).val
                   /\ e.locals.f =
                        multivariate_normal(Steps(e.pre, 1), Zeros(NumWeights), ctor[w].cov).val
              /\ (IsObs(e) /\ Returned(e)) =>
                   /\ Draws(e) = (NumWeights + 1) * n
                   /\ e.locals.V = normal_size(e.pre, NumWeights, n).val
                   /\ e.locals.z =
                        binomial(Steps(e.pre, NumWeights * n),
                                 [t \in 1..n |->
                                    expit(Dot([k \in 1..NumWeights |-> e.locals.V[k][t]],
                                              e.locals.f) + e.locals.beta)]).val

\* An instance on which prior, then a returning observation_model, then
\* another call were made.
C10_Witness ==
  \E w \in Instances :
    /\ Len(hist[w]) >= 3
    /\ IsPrior(hist[w][1])
    /\ IsObs(hist[w][2]) /\ Returned(hist[w][2]) /\ T[w] >= 1
    /\ hist[w][3].post # hist[w][3].pre

====
